---- MODULE Spec2Model ----
(***************************************************************************)
(* A model of personal/lib/email.py: EmailReader.read and the functions it *)
(* calls (_convert_one, _get_body, _safe_get_content, EmailContent and the *)
(* module-level text helpers).                                             *)
(*                                                                         *)
(* Representation.                                                         *)
(*   - A Python str is a sequence of characters, each character a token    *)
(*     (a TLA+ string): "H", " ", "!", "\n", and "yuml" for U+00FF,        *)
(*     "YUML" for U+0178, "repl" for U+FFFD.                               *)
(*   - A Python bytes is a sequence of byte tokens: the ASCII characters   *)
(*     and "xFF" for the byte 0xFF.                                        *)
(*   - An optional value is a sequence of length 0 (None) or 1.            *)
(*   - A float ratio a / b is the pair <<a, b>>.                           *)
(*   - A call's outcome is a record whose exc field is "" for a normal     *)
(*     return and the exception's class name otherwise.                    *)
(*   - An e-mail address string is the sequence of its pieces between "@"  *)
(*     signs, which is what str.split("@") yields.                         *)
(***************************************************************************)
EXTENDS Integers, Sequences, FiniteSets, TLC

VARIABLES
    emails,     \* read's argument: what load_email finds at each path
    pc,         \* position of read: "load", "get_body", "convert", "returned", "raised"
    idx,        \* number of paths whose iteration of read's loop completed
    n_loaded,   \* number of load_email calls made so far
    msg,        \* the EmailMessage of the current iteration (None before the first)
    content,    \* _get_body's result for msg (None until it returned)
    parts,      \* _get_body's local defaultdict of fragment lists at its return
    dict_list,  \* read's local list of converted rows
    result,     \* read's return value (None until it returned)
    error       \* class name of the exception that left read ("" if none)

vars == <<emails, pc, idx, n_loaded, msg, content, parts, dict_list, result, error>>

----------------------------------------------------------------------------
(* Bounds of the model. *)

MaxEmails == 3     \* longest list of paths given to read
MaxParts == 3      \* most direct child parts of a multipart message
MaxLen == 3        \* longest enumerated payload

----------------------------------------------------------------------------
(* Optional values. *)

None == <<>>
Some(x) == <<x>>
Val(o) == o[1]

(* Module constants of email.py. *)

CONTENT_TYPE_HTML == "text/html"
CONTENT_TYPE_PLAIN == "text/plain"
HTML == "html"
PLAIN == "plain"
TYPE_HTML == "html"
TYPE_PLAIN == "plain"
TYPE_BOTH == "both"

----------------------------------------------------------------------------
(* Characters and strings. *)

\* re's \s on the characters of the model
WhitespaceChars == {" ", "\n", "\t"}

\* str.upper() of one character
char_upper(c) ==
    CASE c = "w" -> "W" [] c = "o" -> "O" [] c = "r" -> "R" [] c = "l" -> "L"
      [] c = "d" -> "D" [] c = "b" -> "B" [] c = "p" -> "P" [] c = "i" -> "I"
      [] c = "yuml" -> "YUML"
      [] OTHER -> c

\* str.lower() of the header tokens of the model
str_lower(s) ==
    CASE s = "TEXT/HTML" -> "text/html"
      [] s = "Text/Plain" -> "text/plain"
      [] s = "UTF-8" -> "utf-8"
      [] s = "Unknown-8bit" -> "unknown-8bit"
      [] s = "DEFAULT_CHARSET" -> "default_charset"
      [] OTHER -> s

\* length of the run of whitespace characters text starts with
RECURSIVE leading_whitespace(_)
leading_whitespace(text) ==
    IF text = <<>> \/ Head(text) \notin WhitespaceChars THEN 0
    ELSE 1 + leading_whitespace(Tail(text))

RECURSIVE collapse_spaces(_)
collapse_spaces(spaced_text) ==
    IF spaced_text = <<>> THEN <<>>
    ELSE LET n == leading_whitespace(spaced_text) IN
         IF n >= 2
         THEN <<" ">> \o collapse_spaces(SubSeq(spaced_text, n + 1, Len(spaced_text)))
         ELSE <<Head(spaced_text)>> \o collapse_spaces(Tail(spaced_text))

\* len(text.split(" ")): one segment more than there are separators
count_words(text) == Cardinality({k \in 1..Len(text) : text[k] = " "}) + 1

\* RE_WHITESPACE.match(text): the pattern is tried at the start of text only
is_whitespace(text) == text # <<>> /\ Head(text) \in WhitespaceChars

\* text.count("!")
count_exclamations(text) == Cardinality({k \in 1..Len(text) : text[k] = "!"})

\* BeautifulSoup(html, "html.parser").get_text(): the text outside of tags
RECURSIVE get_text(_, _)
get_text(html, in_tag) ==
    IF html = <<>> THEN <<>>
    ELSE LET c == Head(html) IN
         IF in_tag THEN get_text(Tail(html), c # ">")
         ELSE IF c = "<" THEN get_text(Tail(html), TRUE)
         ELSE <<c>> \o get_text(Tail(html), FALSE)

\* the except branch (return "") is for a parser failure, which no markup of
\* the model's alphabet causes
html_to_text(html) == collapse_spaces(get_text(html, FALSE))

\* sep.join(fragments)
RECURSIVE str_join(_, _)
str_join(sep, fragments) ==
    IF fragments = <<>> THEN <<>>
    ELSE IF Len(fragments) = 1 THEN fragments[1]
    ELSE fragments[1] \o sep \o str_join(sep, Tail(fragments))

----------------------------------------------------------------------------
(* Parsed messages, as the email package exposes them.                     *)
(*   message: [headers, multipart, content_type, charset, payload, parts]  *)
(*   headers: a function from the names of the headers present to their    *)
(*            values; an address header's value is the list of its         *)
(*            (name, address) pairs, any other header's value a token      *)
(*   parts:   the direct child parts, each a message with no headers       *)

\* email.get(name): the header's value, or None when the header is absent
get_header(email, name) ==
    IF name \in DOMAIN email.headers THEN Some(email.headers[name]) ELSE None

\* part.get_content_type(): the declared type, lower-cased
get_content_type(part) == str_lower(part.content_type)

\* part.get_content_charset(): the declared charset lower-cased, or None
get_content_charset(part) ==
    IF part.charset = None THEN None ELSE Some(str_lower(Val(part.charset)))

\* mutant: an absent or empty address header yields a default address
getaddresses_default(fieldvalue) ==
    IF fieldvalue = None \/ Val(fieldvalue) = <<>>
    THEN << [name |-> <<>>, addr |-> << <<"unknown">>, <<"localhost">> >>] >>
    ELSE Val(fieldvalue)

\* email.utils.getaddresses([value]): str(None) is "None", which parses to one
\* address without a display name
getaddresses(fieldvalue) ==
    IF fieldvalue = None
    THEN << [name |-> <<>>, addr |-> << <<"None">> >>] >>
    ELSE Val(fieldvalue)

FREEMAIL == {"gmail.com", "hotmail.com", "yahoo.com", "msn.com"}

\* str.endswith(suffixes): a string is the sequence of its chunks, cut so that
\* only its last chunk can be one of the suffixes
endswith(s, suffixes) == s # <<>> /\ s[Len(s)] \in suffixes

----------------------------------------------------------------------------
(* Decoding. *)

latin1_char(b) == IF b = "xFF" THEN "yuml" ELSE b
utf8_char(b) == IF b = "xFF" THEN "repl" ELSE b

\* bytes.decode(charset, errors="replace"). Empty bytes decode to "" before the
\* codec is looked up. The codec "undefined" raises UnicodeError on any other
\* input (as "idna" does under errors="replace"), a label that names no text
\* codec raises LookupError.
bytes_decode(payload, charset) ==
    IF payload = <<>> THEN [exc |-> "", text |-> <<>>]
    ELSE CASE charset \in {"latin-1", "iso-8859-1"} ->
                [exc |-> "", text |-> [k \in 1..Len(payload) |-> latin1_char(payload[k])]]
           [] charset = "utf-8" ->
                [exc |-> "", text |-> [k \in 1..Len(payload) |-> utf8_char(payload[k])]]
           [] charset = "undefined" -> [exc |-> "UnicodeError", text |-> <<>>]
           [] OTHER -> [exc |-> "LookupError", text |-> <<>>]

\* the exception classes _safe_get_content's except clause names
CaughtByFallback == {"LookupError", "UnicodeDecodeError"}

safe_get_content(part) ==
    LET declared == get_content_charset(part)
        charset == IF declared = None
                      \/ str_lower(Val(declared)) \in {"default_charset", "unknown-8bit"}
                   THEN "latin-1"
                   ELSE Val(declared)
        first == bytes_decode(part.payload, charset)
    IN  IF first.exc \in CaughtByFallback
        THEN bytes_decode(part.payload, "latin-1")
        ELSE first

----------------------------------------------------------------------------
(* EmailContent. *)

EmailContent(html, plain, content_types, multipart, non_main_count) ==
    [html |-> html,
     plain |-> plain,
     plain_stripped |-> IF plain = None THEN None ELSE Some(collapse_spaces(Val(plain))),
     content_types |-> content_types,
     multipart |-> multipart,
     html_text |-> IF html = None THEN None ELSE Some(html_to_text(Val(html))),
     non_main_count |-> non_main_count]

has_both(self) == self.html # None /\ self.plain # None

\* mutant: has_html is computed from plain being absent
content_type_of_not_plain(self) ==
    IF self.html # None /\ self.plain # None THEN TYPE_BOTH
    ELSE LET has_html == self.plain = None IN
         IF has_html THEN TYPE_HTML ELSE TYPE_PLAIN

content_type_of(self) ==
    IF has_both(self) THEN TYPE_BOTH
    ELSE LET has_html == self.html # None IN
         IF has_html THEN TYPE_HTML ELSE TYPE_PLAIN

get_total_length(self) ==
    (IF self.html # None THEN Len(Val(self.html)) ELSE 0)
    + (IF self.plain # None THEN Len(Val(self.plain)) ELSE 0)

get_word_count(self) ==
    (IF self.html_text # None THEN count_words(Val(self.html_text)) ELSE 0)
    + (IF self.plain # None THEN count_words(collapse_spaces(Val(self.plain))) ELSE 0)

\* mutant: whitespace is tested first, so it is counted in neither total
char_class_whitespace_first(c) ==
    IF c \in WhitespaceChars THEN "neither"
    ELSE IF char_upper(c) = c THEN "upper"
    ELSE "lower"

\* the branch of get_uppercase_ratio's inner loop that character c takes
char_class(c) ==
    IF char_upper(c) = c THEN "upper"
    ELSE IF ~is_whitespace(<<c>>) THEN "lower"
    ELSE "neither"

count_class(text, class) == Cardinality({k \in 1..Len(text) : char_class(text[k]) = class})

get_uppercase_ratio(self) ==
    LET process == (IF self.html_text # None THEN <<Val(self.html_text)>> ELSE <<>>)
                   \o (IF self.plain # None THEN <<Val(self.plain)>> ELSE <<>>)
        RECURSIVE total(_, _)
        total(texts, class) ==
            IF texts = <<>> THEN 0
            ELSE count_class(Head(texts), class) + total(Tail(texts), class)
        total_upper == total(process, "upper")
        total_lower == total(process, "lower")
        divisor == IF total_upper + total_lower > 1 THEN total_upper + total_lower ELSE 1
    IN  <<total_upper, divisor>>

get_explamation_count(self) ==
    (IF self.html_text # None THEN count_exclamations(Val(self.html_text)) ELSE 0)
    + (IF self.plain # None THEN count_exclamations(Val(self.plain)) ELSE 0)

----------------------------------------------------------------------------
(* EmailReader._get_body. *)

\* mutant: the count is set to 1 instead of incremented
counter_increment_reset(types_counter, content_type) ==
    IF content_type \notin DOMAIN types_counter
    THEN types_counter @@ (content_type :> 1)
    ELSE [types_counter EXCEPT ![content_type] = 1]

\* types_counter after one part of type content_type was tracked
counter_increment(types_counter, content_type) ==
    LET seen == IF content_type \notin DOMAIN types_counter
                THEN types_counter @@ (content_type :> 0)
                ELSE types_counter
    IN  [seen EXCEPT ![content_type] = @ + 1]

\* mutant: the fragment is inserted at the front of its list
fragments_prepend(fragments, key, text) ==
    IF key \in DOMAIN fragments
    THEN [fragments EXCEPT ![key] = <<text>> \o @]
    ELSE fragments @@ (key :> <<text>>)

\* fragments[key].append(text) on a defaultdict(list)
fragments_append(fragments, key, text) ==
    IF key \in DOMAIN fragments
    THEN [fragments EXCEPT ![key] = Append(@, text)]
    ELSE fragments @@ (key :> <<text>>)

\* the loop over email.iter_parts(), from the k-th direct child on
RECURSIVE iter_parts(_, _, _, _, _)
iter_parts(children, k, types_counter, non_main_types, fragments) ==
    IF k > Len(children)
    THEN [exc |-> "", types_counter |-> types_counter,
          non_main_types |-> non_main_types, parts |-> fragments]
    ELSE LET part == children[k]
             content_type == get_content_type(part)
             counted == counter_increment(types_counter, content_type)
             decoded == safe_get_content(part)
         IN  IF content_type \in {CONTENT_TYPE_HTML, CONTENT_TYPE_PLAIN}
             THEN IF decoded.exc # ""
                  THEN [exc |-> decoded.exc, types_counter |-> counted,
                        non_main_types |-> non_main_types, parts |-> fragments]
                  ELSE iter_parts(children, k + 1, counted, non_main_types,
                           fragments_append(fragments,
                               IF content_type = CONTENT_TYPE_HTML THEN HTML ELSE PLAIN,
                               decoded.text))
             ELSE iter_parts(children, k + 1, counted, non_main_types + 1, fragments)

\* the multipart branch, lines 229-262
get_body_multipart(email) ==
    LET done == iter_parts(email.parts, 1, <<>>, 0, <<>>)
        html_concat == IF HTML \notin DOMAIN done.parts THEN None
                       ELSE Some(str_join(<<"\n">>, done.parts[HTML]))
        plain_concat == IF PLAIN \notin DOMAIN done.parts THEN None
                        ELSE Some(str_join(<<"\n">>, done.parts[PLAIN]))
    IN  IF done.exc # ""
        THEN [exc |-> done.exc, content |-> None, parts |-> done.parts]
        ELSE [exc |-> "",
              content |-> Some(EmailContent(html_concat, plain_concat,
                                   done.types_counter, TRUE, done.non_main_types)),
              parts |-> done.parts]

\* the single-part branch, lines 265-288
get_body_single(email) ==
    LET content_type == str_lower(get_content_type(email))
        types_counter == (content_type :> 1)
        decoded == safe_get_content(email)
    IN  IF content_type = CONTENT_TYPE_HTML
        THEN IF decoded.exc # ""
             THEN [exc |-> decoded.exc, content |-> None, parts |-> <<>>]
             ELSE [exc |-> "", parts |-> <<>>,
                   content |-> Some(EmailContent(Some(decoded.text), None,
                                        types_counter, FALSE, 0))]
        ELSE IF content_type = CONTENT_TYPE_PLAIN
        THEN IF decoded.exc # ""
             THEN [exc |-> decoded.exc, content |-> None, parts |-> <<>>]
             ELSE [exc |-> "", parts |-> <<>>,
                   content |-> Some(EmailContent(None, Some(decoded.text),
                                        types_counter, FALSE, 0))]
        ELSE [exc |-> "", parts |-> <<>>,
              content |-> Some(EmailContent(None, None, types_counter, FALSE, 0))]

\* an exception in either branch is printed and raised again
get_body(email) ==
    IF email.multipart THEN get_body_multipart(email) ELSE get_body_single(email)

----------------------------------------------------------------------------
(* EmailReader._convert_one. *)

\* the output row, lines 173-207; an address is written back as one string
msg_data(email, self) ==
    LET from_email == get_header(email, "From")
        from_name_and_email == getaddresses(from_email)
        to_emails == get_header(email, "To")
        to_names_and_emails == getaddresses(to_emails)
        reply_to == get_header(email, "Reply-To")
        reply_to_names_and_emails == getaddresses(reply_to)
        list_unsub == get_header(email, "List-Unsubscribe")
        addr_str(e) == str_join(<<"@">>, e.addr)
        has_name(e) == Len(e.name) > 0
        has_addr(e) == Len(addr_str(e)) > 0
        named == SelectSeq(to_names_and_emails, has_name)
        addressed == SelectSeq(to_names_and_emails, has_addr)
    IN  [subject |-> get_header(email, "Subject"),
         from_raw |-> from_email,
         from_name |-> from_name_and_email[1].name,
         from_email |-> addr_str(from_name_and_email[1]),
         from_uses_freemail |-> endswith(from_name_and_email[1].addr[2], FREEMAIL),
         to_raw |-> to_emails,
         to_names |-> str_join(<<",">>, [k \in 1..Len(named) |-> named[k].name]),
         to_emails |-> str_join(<<",">>, [k \in 1..Len(addressed) |-> addr_str(addressed[k])]),
         to_emails_count |-> Len(to_names_and_emails),
         reply_to_raw |-> reply_to,
         reply_to_name |-> reply_to_names_and_emails[1].name,
         reply_to_email |-> addr_str(reply_to_names_and_emails[1]),
         to_is_reply_to |-> (to_emails # None /\ to_emails = reply_to),
         cc |-> get_header(email, "Cc"),
         list_unsub |-> list_unsub,
         has_list_unsub |-> (list_unsub # None),
         content_type_raw |-> get_header(email, "Content-Type"),
         date |-> get_header(email, "Date"),
         message_id |-> get_header(email, "Message-ID"),
         x_mailer |-> get_header(email, "X-Mailer"),
         user_agent |-> get_header(email, "User-Agent"),
         type |-> content_type_of(self),
         html_body |-> self.html,
         html_body_stripped |-> self.html_text,
         plain_body |-> self.plain,
         plain_body_stripped |-> self.plain_stripped,
         content_types |-> [json |-> self.content_types],
         non_main_content |-> self.non_main_count,
         multipart |-> self.multipart,
         char_count |-> get_total_length(self),
         word_count |-> get_word_count(self),
         shoutiness |-> get_uppercase_ratio(self),
         exclamations |-> get_explamation_count(self)]

\* mutant: the bodies that are None are left out of the row
convert_one_sparse(email, self) ==
    LET from_name_and_email == getaddresses(get_header(email, "From"))
        reply_to_names_and_emails == getaddresses(get_header(email, "Reply-To"))
        full == msg_data(email, self)
        absent == (IF self.html = None THEN {"html_body", "html_body_stripped"} ELSE {})
                  \cup (IF self.plain = None THEN {"plain_body", "plain_body_stripped"} ELSE {})
    IN  IF Len(from_name_and_email) = 0
           \/ Len(from_name_and_email[1].addr) < 2
           \/ Len(reply_to_names_and_emails) = 0
        THEN [exc |-> "IndexError", row |-> None]
        ELSE [exc |-> "", row |-> Some([f \in DOMAIN full \ absent |-> full[f]])]

\* the statements after _get_body returned self: the unguarded subscripts of
\* lines 146 and 184 raise IndexError
convert_one(email, self) ==
    LET from_name_and_email == getaddresses(get_header(email, "From"))
        reply_to_names_and_emails == getaddresses(get_header(email, "Reply-To"))
    IN  IF Len(from_name_and_email) = 0
        THEN [exc |-> "IndexError", row |-> None]
        ELSE IF Len(from_name_and_email[1].addr) < 2
        THEN [exc |-> "IndexError", row |-> None]
        ELSE IF Len(reply_to_names_and_emails) = 0
        THEN [exc |-> "IndexError", row |-> None]
        ELSE [exc |-> "", row |-> Some(msg_data(email, self))]

----------------------------------------------------------------------------
(* EmailReader.read. *)

\* load_email(path): the parsed message, or the error of opening the file
load_email(source) ==
    IF source = None THEN [exc |-> "FileNotFoundError", email |-> None]
    ELSE [exc |-> "", email |-> source]

\* mutant: the row is inserted at the front
list_prepend(rows, converted) == <<converted>> \o rows

\* dict_list.append(converted)
list_append(rows, converted) == Append(rows, converted)

\* pd.DataFrame(dict_list): one row per dict, the columns are the dicts' keys
DataFrame(rows) ==
    [columns |-> UNION {DOMAIN rows[k] : k \in 1..Len(rows)}, rows |-> rows]

\* mutant: the failing message is skipped and the loop goes on
skip_and_continue(exc, i) == [pc |-> "load", idx |-> i + 1, error |-> exc]

\* nothing in read or _convert_one catches: an exception raised in iteration
\* i + 1 ends the call
raise_out_of_read(exc, i) == [pc |-> "raised", idx |-> i, error |-> exc]

----------------------------------------------------------------------------
(* The inputs: the messages the paths given to read may hold. *)

\* every sequence over S of length lo to hi
SeqsOf(S, lo, hi) == UNION {[1..n -> S] : n \in lo..hi}

Address(name, local, domain) == [name |-> name, addr |-> <<local, domain>>]
Bob == Address(<<"Bob">>, <<"bob">>, <<"gmail.com">>)
Ann == Address(<<>>, <<"ann">>, <<"lists.", "x.org">>)

UsualHeaders ==
    ("From" :> <<Bob>>) @@ ("To" :> <<Ann, Bob>>) @@ ("Subject" :> "hello")
    @@ ("Date" :> "Mon, 2 Sep 2002") @@ ("Message-ID" :> "<1@x.org>")

ListHeaders ==
    ("From" :> <<Ann>>) @@ ("To" :> <<Ann>>) @@ ("Reply-To" :> <<Ann>>)
    @@ ("List-Unsubscribe" :> "<mailto:leave@x.org>") @@ ("X-Mailer" :> "mutt")

Part(content_type, charset, payload) ==
    [headers |-> <<>>, multipart |-> FALSE, content_type |-> content_type,
     charset |-> charset, payload |-> payload, parts |-> <<>>]

\* a child part that is itself multipart
NestedPart ==
    [headers |-> <<>>, multipart |-> TRUE, content_type |-> "multipart/alternative",
     charset |-> None, payload |-> <<>>,
     parts |-> <<Part("text/plain", None, <<"i", "n">>)>>]

SinglePart(headers, content_type, charset, payload) ==
    [Part(content_type, charset, payload) EXCEPT !.headers = headers]

Multipart(headers, children) ==
    [headers |-> headers, multipart |-> TRUE, content_type |-> "multipart/mixed",
     charset |-> None, payload |-> <<>>, parts |-> children]

Hello == <<"H", "E", "L", "L", "O", " ", "w", "o", "r", "l", "d", "!", "!">>
HiMarkup == <<"<", "p", ">", "H", "i", "<", "/", "p", ">">>

\* the parts the enumerated multipart messages are made of
ChildParts ==
    {Part(t, c, b) : t \in {"text/html", "text/plain"},
                     c \in {None, Some("undefined")},
                     b \in {<<"H", "i">>, <<"b", "xFF">>}}
    \cup {Part("application/pdf", None, <<"xFF">>), NestedPart}

MultipartMessages ==
    {Multipart(UsualHeaders, children) : children \in SeqsOf(ChildParts, 1, MaxParts)}

Charsets ==
    {None, Some("utf-8"), Some("UTF-8"), Some("iso-8859-1"), Some("Unknown-8bit"),
     Some("DEFAULT_CHARSET"), Some("x-bogus"), Some("undefined")}

CharsetMessages ==
    {SinglePart(UsualHeaders, "text/plain", c, b) :
        c \in Charsets, b \in SeqsOf({"A", "xFF"}, 0, MaxLen)}

TextMessages ==
    {SinglePart(UsualHeaders, t, None, b) :
        t \in {"text/plain", "text/html"},
        b \in SeqsOf({"A", "b", " ", "!", "\n"}, 0, MaxLen) \cup {Hello, HiMarkup}}
    \cup {Multipart(UsualHeaders, <<Part("text/html", None, h), Part("text/plain", None, t)>>) :
            h \in {HiMarkup, <<"<", "p", ">", " ", "<", "/", "p", ">">>},
            t \in {<<"H", "i">>, <<" ", "\n">>, <<>>}}

\* what a path of a batch may hold; None is a path that cannot be opened
BatchSources ==
    {None,
     Some(SinglePart(UsualHeaders, "Text/Plain", Some("UTF-8"), <<"H", "i", "!">>)),
     Some(Multipart(ListHeaders,
            <<Part("TEXT/HTML", None, HiMarkup), Part("application/pdf", None, <<"xFF">>),
              Part("text/plain", Some("x-bogus"), <<"H", "i">>)>>)),
     Some(SinglePart(("To" :> <<Ann>>), "text/plain", None, <<"H", "i">>)),
     Some(SinglePart(("From" :> <<>>), "text/html", None, HiMarkup)),
     Some(SinglePart(("From" :> << [name |-> <<>>, addr |-> << <<"root">> >>] >>),
            "text/plain", None, <<"H", "i">>)),
     Some(SinglePart(UsualHeaders, "text/plain", Some("undefined"), <<"H", "i">>)),
     Some(SinglePart(UsualHeaders @@ ("Reply-To" :> <<>>), "text/plain", None, <<"H", "i">>)),
     Some(SinglePart(UsualHeaders, "multipart/mixed", None, <<"H", "i">>))}

Inputs ==
    SeqsOf(BatchSources, 0, MaxEmails)
    \cup {<<Some(m)>> : m \in MultipartMessages \cup CharsetMessages \cup TextMessages}

----------------------------------------------------------------------------
(* The state machine of one call of read. *)

Init ==
    /\ emails \in Inputs
    /\ pc = "load"
    /\ idx = 0
    /\ n_loaded = 0
    /\ msg = None
    /\ content = None
    /\ parts = <<>>
    /\ dict_list = <<>>
    /\ result = None
    /\ error = ""

\* an exception leaves read
Raise(exc) ==
    LET out == raise_out_of_read(exc, idx) IN
    /\ pc' = out.pc
    /\ idx' = out.idx
    /\ error' = out.error

\* line 301, load_email(path) returns the parsed message
Load ==
    /\ pc = "load"
    /\ idx < Len(emails)
    /\ LET out == load_email(emails[idx + 1]) IN
        /\ out.exc = ""
        /\ msg' = out.email
    /\ n_loaded' = n_loaded + 1
    /\ pc' = "get_body"
    /\ content' = None
    /\ parts' = <<>>
    /\ UNCHANGED <<emails, idx, dict_list, result, error>>

\* line 301, load_email(path) raises
LoadRaises ==
    /\ pc = "load"
    /\ idx < Len(emails)
    /\ LET out == load_email(emails[idx + 1]) IN
        /\ out.exc # ""
        /\ Raise(out.exc)
    /\ n_loaded' = n_loaded + 1
    /\ UNCHANGED <<emails, msg, content, parts, dict_list, result>>

\* line 142, _get_body(email) returns
GetBody ==
    /\ pc = "get_body"
    /\ LET out == get_body(Val(msg)) IN
        /\ out.exc = ""
        /\ content' = out.content
        /\ parts' = out.parts
    /\ pc' = "convert"
    /\ UNCHANGED <<emails, idx, n_loaded, msg, dict_list, result, error>>

\* line 142, _get_body(email) prints and raises again (lines 290-292)
GetBodyRaises ==
    /\ pc = "get_body"
    /\ LET out == get_body(Val(msg)) IN
        /\ out.exc # ""
        /\ Raise(out.exc)
    /\ UNCHANGED <<emails, n_loaded, msg, content, parts, dict_list, result>>

\* lines 144-209 and 302: the row is built and appended
ConvertOne ==
    /\ pc = "convert"
    /\ LET out == convert_one(Val(msg), Val(content)) IN
        /\ out.exc = ""
        /\ dict_list' = list_append(dict_list, Val(out.row))
    /\ idx' = idx + 1
    /\ pc' = "load"
    /\ UNCHANGED <<emails, n_loaded, msg, content, parts, result, error>>

\* lines 144-209: a subscript raises
ConvertOneRaises ==
    /\ pc = "convert"
    /\ LET out == convert_one(Val(msg), Val(content)) IN
        /\ out.exc # ""
        /\ Raise(out.exc)
    /\ UNCHANGED <<emails, n_loaded, msg, content, parts, dict_list, result>>

\* line 304
Return ==
    /\ pc = "load"
    /\ idx = Len(emails)
    /\ result' = Some(DataFrame(dict_list))
    /\ pc' = "returned"
    /\ UNCHANGED <<emails, idx, n_loaded, msg, content, parts, dict_list, error>>

Next ==
    \/ Load
    \/ LoadRaises
    \/ GetBody
    \/ GetBodyRaises
    \/ ConvertOne
    \/ ConvertOneRaises
    \/ Return

Spec == Init /\ [][Next]_vars

----------------------------------------------------------------------------
(* Properties. *)

\* the direct children of email whose content type is t, in document order
TypedChildren(email, t) ==
    LET is_t(part) == get_content_type(part) = t IN SelectSeq(email.parts, is_t)

RECURSIVE SumOver(_, _)
SumOver(f, D) ==
    IF D = {} THEN 0
    ELSE LET x == CHOOSE y \in D : TRUE IN f[x] + SumOver(f, D \ {x})

FragmentCount(key) == IF key \in DOMAIN parts THEN Len(parts[key]) ELSE 0

\* _get_body returned for the multipart message msg
BodyOfMultipart == content # None /\ Val(msg).multipart

\* C1: when _get_body has traversed a multipart message with N direct children,
\* the values of content_types sum to N, each type's count is the number of
\* children of that type, and the HTML fragments, the plain fragments and
\* non_main_count add up to N, each being the number of children of its kind.
C1_EveryPartCountedOnce ==
    BodyOfMultipart =>
        LET email == Val(msg)
            self == Val(content)
            N == Len(email.parts)
            n_html == Len(TypedChildren(email, CONTENT_TYPE_HTML))
            n_plain == Len(TypedChildren(email, CONTENT_TYPE_PLAIN))
        IN  /\ SumOver(self.content_types, DOMAIN self.content_types) = N
            /\ \A t \in DOMAIN self.content_types :
                   self.content_types[t] = Len(TypedChildren(email, t))
            /\ FragmentCount(HTML) + FragmentCount(PLAIN) + self.non_main_count = N
            /\ FragmentCount(HTML) = n_html
            /\ FragmentCount(PLAIN) = n_plain
            /\ self.non_main_count = N - n_html - n_plain

C1_Witness ==
    /\ BodyOfMultipart
    /\ Len(Val(msg).parts) = 3
    /\ CONTENT_TYPE_HTML \in DOMAIN Val(content).content_types
    /\ Val(content).content_types[CONTENT_TYPE_HTML] = 2
    /\ Val(content).non_main_count = 1

\* the decoded payloads of the direct children of type t, in document order
DecodedChildren(email, t) ==
    LET typed == TypedChildren(email, t) IN
    [k \in 1..Len(typed) |-> safe_get_content(typed[k]).text]

JoinedOrNone(email, t) ==
    IF TypedChildren(email, t) = <<>> THEN None
    ELSE Some(str_join(<<"\n">>, DecodedChildren(email, t)))

\* C2: for a multipart message, html is the decoded payloads of the direct
\* children of type text/html joined by newlines in document order, and None
\* exactly when there is no such child; the same for plain and text/plain.
\* Children of other types contribute nothing and stop nothing.
C2_BodiesAreJoinedFragments ==
    BodyOfMultipart =>
        /\ Val(content).html = JoinedOrNone(Val(msg), CONTENT_TYPE_HTML)
        /\ Val(content).plain = JoinedOrNone(Val(msg), CONTENT_TYPE_PLAIN)
        /\ (Val(content).html = None) = (TypedChildren(Val(msg), CONTENT_TYPE_HTML) = <<>>)
        /\ (Val(content).plain = None) = (TypedChildren(Val(msg), CONTENT_TYPE_PLAIN) = <<>>)

C2_Witness ==
    /\ BodyOfMultipart
    /\ Len(Val(msg).parts) = 3
    /\ get_content_type(Val(msg).parts[1]) = CONTENT_TYPE_HTML
    /\ get_content_type(Val(msg).parts[2]) = "application/pdf"
    /\ get_content_type(Val(msg).parts[3]) = CONTENT_TYPE_HTML
    /\ Val(content).html = Some(<<"H", "i", "\n", "b", "yuml">>)
    /\ Val(content).plain = None
    /\ Val(content).non_main_count = 1

\* C3: in every row, type is "both" iff html and plain are both present, "html"
\* iff html is present and plain is not, and "plain" otherwise, also when
\* neither is present.
C3_TypeFollowsBodies ==
    \A k \in 1..Len(dict_list) :
        LET row == dict_list[k]
            has_html == row.html_body # None
            has_plain == row.plain_body # None
        IN  /\ row.type \in {TYPE_BOTH, TYPE_HTML, TYPE_PLAIN}
            /\ (row.type = TYPE_BOTH) = (has_html /\ has_plain)
            /\ (row.type = TYPE_HTML) = (has_html /\ ~has_plain)
            /\ (row.type = TYPE_PLAIN) = (~has_html)

C3_Witness ==
    \E k \in 1..Len(dict_list) :
        /\ dict_list[k].multipart
        /\ dict_list[k].html_body = None
        /\ dict_list[k].plain_body = None
        /\ dict_list[k].non_main_content = 1
        /\ dict_list[k].type = TYPE_PLAIN

\* row is the row of a single-part text/plain message whose body is Hello
IsHelloRow(row) ==
    /\ ~row.multipart
    /\ row.html_body = None
    /\ row.plain_body = Some(Hello)

\* C4 as stated: the row of a single-part text/plain message with the body
\* "HELLO world!!" has word_count 2, exclamations 2 and shoutiness 0.5.
C4_HelloShoutinessIsHalf ==
    \A k \in 1..Len(dict_list) :
        IsHelloRow(dict_list[k]) =>
            /\ dict_list[k].word_count = 2
            /\ dict_list[k].exclamations = 2
            /\ 2 * dict_list[k].shoutiness[1] = dict_list[k].shoutiness[2]

\* C4 as amended: the row of a single-part text/plain message with the body
\* "HELLO world!!" has word_count 2, exclamations 2 and shoutiness 8/13: the
\* space and the two exclamation marks equal their own upper-casing and are
\* counted as upper, like the five capitals, against five lower-case letters.
C4_HelloShoutinessIsEightThirteenths ==
    \A k \in 1..Len(dict_list) :
        IsHelloRow(dict_list[k]) =>
            /\ dict_list[k].word_count = 2
            /\ dict_list[k].exclamations = 2
            /\ dict_list[k].shoutiness = <<8, 13>>

C4_Witness ==
    /\ pc = "returned"
    /\ Len(dict_list) = 1
    /\ IsHelloRow(dict_list[1])
    /\ dict_list[1].char_count = 13

AllWhitespace(text) == \A k \in 1..Len(text) : text[k] \in WhitespaceChars

\* C5: in every row whose stripped html text and plain text, whichever are
\* present, are empty or hold whitespace only, shoutiness is 0.
C5_WhitespaceShoutinessIsZero ==
    \A k \in 1..Len(dict_list) :
        LET row == dict_list[k] IN
        (/\ row.html_body_stripped # None => AllWhitespace(Val(row.html_body_stripped))
         /\ row.plain_body # None => AllWhitespace(Val(row.plain_body)))
        => row.shoutiness[1] = 0

\* the source loads and converts without error
Converts(source) ==
    /\ load_email(source).exc = ""
    /\ get_body(Val(source)).exc = ""
    /\ convert_one(Val(source), Val(get_body(Val(source)).content)).exc = ""

\* the record built from the source
RowOf(source) == Val(convert_one(Val(source), Val(get_body(Val(source)).content)).row)

\* C6: when every source loads and converts without error, read does not
\* raise, the rows collected so far are the records of the first sources in
\* input order, and the table returned has one row per source, row k being the
\* record built from source k.
C6_RowsInInputOrder ==
    (\A k \in 1..Len(emails) : Converts(emails[k])) =>
        /\ pc # "raised"
        /\ Len(dict_list) = idx
        /\ \A k \in 1..Len(dict_list) : dict_list[k] = RowOf(emails[k])
        /\ pc = "returned" =>
              /\ Len(Val(result).rows) = Len(emails)
              /\ \A k \in 1..Len(emails) : Val(result).rows[k] = RowOf(emails[k])

C6_Witness ==
    /\ pc = "returned"
    /\ Len(emails) = 3
    /\ Len(Val(result).rows) = 3
    /\ Val(result).rows[1].multipart
    /\ ~Val(result).rows[2].multipart
    /\ Val(result).rows[3].multipart

\* the keys of msg_data
RowFields ==
    {"subject", "from_raw", "from_name", "from_email", "from_uses_freemail",
     "to_raw", "to_names", "to_emails", "to_emails_count",
     "reply_to_raw", "reply_to_name", "reply_to_email", "to_is_reply_to",
     "cc", "list_unsub", "has_list_unsub", "content_type_raw", "date",
     "message_id", "x_mailer", "user_agent",
     "type", "html_body", "html_body_stripped", "plain_body", "plain_body_stripped",
     "content_types", "non_main_content", "multipart",
     "char_count", "word_count", "shoutiness", "exclamations"}

\* C7 as stated: every row has 28 fields and the table returned has 28 columns.
C7_TwentyEightColumns ==
    /\ \A k \in 1..Len(dict_list) : Cardinality(DOMAIN dict_list[k]) = 28
    /\ (pc = "returned" /\ Len(emails) > 0) => Cardinality(Val(result).columns) = 28

\* C7 as amended: every row has the same fixed set of field names whatever the
\* message, that set has 33 fields, and the table returned for a list that is
\* not empty has these 33 columns.
C7_ThirtyThreeColumns ==
    /\ Cardinality(RowFields) = 33
    /\ \A k \in 1..Len(dict_list) : DOMAIN dict_list[k] = RowFields
    /\ (pc = "returned" /\ Len(emails) > 0) => Val(result).columns = RowFields

C7_Witness ==
    /\ pc = "returned"
    /\ Len(Val(result).rows) = 2
    /\ Val(result).rows[1].type = TYPE_BOTH
    /\ Val(result).rows[2].type = TYPE_PLAIN
    /\ Val(result).rows[2].html_body = None
    /\ Val(result).rows[1].reply_to_raw # None
    /\ Val(result).rows[2].reply_to_raw = None

\* C8: once loading or converting message k has failed, read has raised: no
\* table is returned, the rows of messages 1..k-1 stay in the abandoned local
\* list, message k is the last one loaded and nothing more happens.
C8_FailureEndsRead ==
    error # "" =>
        /\ pc = "raised"
        /\ result = None
        /\ idx < Len(emails)
        /\ n_loaded = idx + 1
        /\ Len(dict_list) = idx
        /\ ~Converts(emails[idx + 1])
        /\ ~ENABLED Next

C8_Witness ==
    /\ pc = "raised"
    /\ error # ""
    /\ result = None
    /\ idx = 1
    /\ Len(dict_list) = 1
    /\ Len(emails) = 3
    /\ Converts(emails[3])

\* C9: no decoding error ever leaves _safe_get_content, whatever the payload
\* and the declared charset.
C9_DecodingNeverRaises ==
    error \notin {"LookupError", "UnicodeDecodeError", "UnicodeError"}

\* the From header is absent or holds no address
FromMissing(email) ==
    "From" \notin DOMAIN email.headers \/ email.headers["From"] = <<>>

\* C10: a message whose From header is absent or holds no address never yields
\* a row: once _get_body has returned for it, _convert_one either is still to
\* run or has raised IndexError.
C10_MissingFromRaises ==
    /\ \A k \in 1..Len(dict_list) : ~FromMissing(Val(emails[k]))
    /\ (msg # None /\ content # None /\ FromMissing(Val(msg))) =>
           \/ pc = "convert"
           \/ pc = "raised" /\ error = "IndexError" /\ Len(dict_list) = idx

C10_Witness ==
    /\ pc = "raised"
    /\ error = "IndexError"
    /\ content # None
    /\ "From" \notin DOMAIN Val(msg).headers
    /\ Val(content).plain = Some(<<"H", "i">>)

C10_WitnessEmptyFrom ==
    /\ pc = "raised"
    /\ error = "IndexError"
    /\ content # None
    /\ "From" \in DOMAIN Val(msg).headers
    /\ Val(msg).headers["From"] = <<>>

====
